---------------------------- MODULE Spec2Model ----------------------------
(***************************************************************************)
(* A model of package httpgzip (src/httpgzip.go): the gzipHandler          *)
(* dispatcher, the gRW response-writer decorator with its compress/skip    *)
(* decision, the pooled gzip streams, and the Accept-Encoding negotiator.  *)
(*                                                                         *)
(* Go strings are modelled as sequences of one-character strings, so that  *)
(* prefix, substring, split and trim operations are computed as the code   *)
(* computes them.  The empty Go string is the empty sequence.              *)
(***************************************************************************)
EXTENDS Integers, Sequences, FiniteSets, TLC

(***************************************************************************)
(* Helpers of the Go standard library used by the code (package strings    *)
(* and strconv), restricted to the characters the model's inputs use.      *)
(***************************************************************************)

\* strings.HasPrefix(s, p)
HasPrefix(s, p) == Len(s) >= Len(p) /\ SubSeq(s, 1, Len(p)) = p

\* strings.Contains(s, sub)
Contains(s, sub) ==
    \E i \in 1..(Len(s) - Len(sub) + 1) : SubSeq(s, i, i + Len(sub) - 1) = sub

\* strings.TrimPrefix(s, p)
TrimPrefix(s, p) == IF HasPrefix(s, p) THEN SubSeq(s, Len(p) + 1, Len(s)) ELSE s

\* strings.TrimSpace(s): leading and trailing white space removed
RECURSIVE TrimLeft(_)
TrimLeft(s) ==
    IF s # <<>> /\ Head(s) = " " THEN TrimLeft(Tail(s)) ELSE s

RECURSIVE TrimRight(_)
TrimRight(s) ==
    IF s # <<>> /\ s[Len(s)] = " " THEN TrimRight(SubSeq(s, 1, Len(s) - 1)) ELSE s

TrimSpace(s) == TrimRight(TrimLeft(s))

\* index of the first occurrence of the character c in s, 0 when absent
IndexOf(s, c) ==
    IF \E i \in 1..Len(s) : s[i] = c
    THEN CHOOSE i \in 1..Len(s) : s[i] = c /\ \A j \in 1..(i - 1) : s[j] # c
    ELSE 0

\* strings.Split(s, sep) for a one-character separator: never empty,
\* Split("", ",") is the one-element list holding the empty string
RECURSIVE Split(_, _)
Split(s, sep) ==
    LET i == IndexOf(s, sep)
    IN  IF i = 0 THEN <<s>>
        ELSE <<SubSeq(s, 1, i - 1)>> \o Split(SubSeq(s, i + 1, Len(s)), sep)

\* strings.SplitN(s, sep, 2): cut at the first separator only
SplitN2(s, sep) ==
    LET i == IndexOf(s, sep)
    IN  IF i = 0 THEN <<s>>
        ELSE <<SubSeq(s, 1, i - 1), SubSeq(s, i + 1, Len(s))>>

Digits == {"0", "1", "2", "3", "4", "5", "6", "7", "8", "9"}

DigitVal(c) ==
    CASE c = "0" -> 0 [] c = "1" -> 1 [] c = "2" -> 2 [] c = "3" -> 3
      [] c = "4" -> 4 [] c = "5" -> 5 [] c = "6" -> 6 [] c = "7" -> 7
      [] c = "8" -> 8 [] c = "9" -> 9

RECURSIVE DecVal(_)
DecVal(s) ==
    IF s = <<>> THEN 0 ELSE 10 * DecVal(SubSeq(s, 1, Len(s) - 1)) + DigitVal(s[Len(s)])

\* strconv.Atoi(s): an optional sign followed by one or more decimal digits
Atoi(s) ==
    LET signed == s # <<>> /\ Head(s) \in {"+", "-"}
        body   == IF signed THEN Tail(s) ELSE s
        ok     == body # <<>> /\ \A i \in 1..Len(body) : body[i] \in Digits
    IN  IF ~ok THEN [err |-> TRUE, n |-> 0]
        ELSE [err |-> FALSE,
              n |-> IF signed /\ Head(s) = "-" THEN 0 - DecVal(body) ELSE DecVal(body)]

\* strconv.ParseFloat(s, 64) on decimal literals without exponent: an
\* optional sign, digits with at most one point and at least one digit.
\* The value is represented by its sign, which is all the caller compares.
ParseFloat(s) ==
    LET signed == s # <<>> /\ Head(s) \in {"+", "-"}
        body   == IF signed THEN Tail(s) ELSE s
        points == {i \in 1..Len(body) : body[i] = "."}
        ok     == /\ \A i \in 1..Len(body) : body[i] \in Digits \cup {"."}
                  /\ Cardinality(points) <= 1
                  /\ \E i \in 1..Len(body) : body[i] \in Digits
        nonzero == \E i \in 1..Len(body) : body[i] \in Digits \ {"0"}
    IN  IF ~ok THEN [err |-> TRUE, sign |-> 0]
        ELSE [err |-> FALSE,
              sign |-> IF ~nonzero THEN 0
                       ELSE IF signed /\ Head(s) = "-" THEN 0 - 1 ELSE 1]

(***************************************************************************)
(* Negotiator                                                              *)
(***************************************************************************)

\* a variant of the loop that goes on to the next entry after a gzip entry
\* it rejects
RECURSIVE allowsGzipLoopScanOn(_, _)
allowsGzipLoopScanOn(ss, i) ==
    IF i > Len(ss) THEN FALSE
    ELSE LET parts == SplitN2(ss[i], ";")
             l     == Len(parts)
         IN  IF l = 0 \/ TrimSpace(parts[1]) # <<"g", "z", "i", "p">> THEN allowsGzipLoopScanOn(ss, i + 1)
             ELSE IF l = 1 THEN TRUE
             ELSE LET p  == TrimSpace(parts[2])
                      qv == TrimPrefix(p, <<"q", "=">>)
                      q  == ParseFloat(qv)
                  IN  IF qv # p /\ ~q.err /\ q.sign > 0 THEN TRUE
                      ELSE allowsGzipLoopScanOn(ss, i + 1)

\* the loop of allowsGzip over the entries ss[i..], with its early returns
RECURSIVE allowsGzipLoop(_, _)
allowsGzipLoop(ss, i) ==
    IF i > Len(ss) THEN FALSE
    ELSE LET parts == SplitN2(ss[i], ";")
             l     == Len(parts)
         IN  IF l = 0 \/ TrimSpace(parts[1]) # <<"g", "z", "i", "p">> THEN allowsGzipLoop(ss, i + 1)
             ELSE IF l = 1 THEN TRUE
             ELSE LET p  == TrimSpace(parts[2])
                      qv == TrimPrefix(p, <<"q", "=">>)
                  IN  IF qv # p
                      THEN LET q == ParseFloat(qv)
                           IN  IF ~q.err THEN q.sign > 0 ELSE FALSE
                      ELSE FALSE

allowsGzip(h) ==
    IF ~Contains(h, <<"g", "z", "i", "p">>) THEN FALSE
    ELSE allowsGzipLoop(Split(h, ","), 1)


\* a variant that takes any mention of gzip for acceptance
acceptsGzipSubstring(ae) == Contains(ae, <<"g", "z", "i", "p">>)

acceptsGzip(ae) == allowsGzip(ae)

(***************************************************************************)
(* Content types and the size threshold                                    *)
(***************************************************************************)

compressThreshold == 1000

\* a variant that takes every application/ type
supportedContentTypeAnyApp(s) ==
    IF s = <<>> THEN FALSE
    ELSE IF s \in {<<"i", "m", "a", "g", "e", "/", "s", "v", "g", "+", "x", "m", "l">>, <<"f", "o", "n", "t", "/", "w", "o", "f", "f">>, <<"f", "o", "n", "t", "/", "w", "o", "f", "f", "2">>} THEN TRUE
    ELSE HasPrefix(s, <<"t", "e", "x", "t", "/">>) \/ HasPrefix(s, <<"a", "p", "p", "l", "i", "c", "a", "t", "i", "o", "n", "/">>)

supportedContentType(s) ==
    IF s = <<>> THEN FALSE
    ELSE IF s \in {<<"i", "m", "a", "g", "e", "/", "s", "v", "g", "+", "x", "m", "l">>, <<"f", "o", "n", "t", "/", "w", "o", "f", "f">>, <<"f", "o", "n", "t", "/", "w", "o", "f", "f", "2">>} THEN TRUE
    ELSE IF HasPrefix(s, <<"t", "e", "x", "t", "/">>) THEN TRUE
    ELSE IF HasPrefix(s, <<"a", "p", "p", "l", "i", "c", "a", "t", "i", "o", "n", "/">>)
            /\ (Contains(s, <<"j", "s", "o", "n">>) \/ Contains(s, <<"j", "a", "v", "a", "s", "c", "r", "i", "p", "t">>) \/ Contains(s, <<"x", "m", "l">>))
         THEN TRUE
    ELSE FALSE

\* Body payloads a handler passes to Write, and what http.DetectContentType
\* answers for each: never the empty string.
Payloads == {"hello", "blob"}

DetectContentType(b) ==
    IF b = "hello" THEN <<"t", "e", "x", "t", "/", "p", "l", "a", "i", "n", ";", " ", "c", "h", "a", "r", "s", "e", "t", "=", "u", "t", "f", "-", "8">> ELSE <<"a", "p", "p", "l", "i", "c", "a", "t", "i", "o", "n", "/", "o", "c", "t", "e", "t", "-", "s", "t", "r", "e", "a", "m">>

(***************************************************************************)
(* State                                                                   *)
(***************************************************************************)

VARIABLES
    req,    \* per request: the real writer, the gRW around it, the handler's history
    zs,     \* the gzip.Writer instances of the handler's pool
    neg,    \* the negotiator applied to one Accept-Encoding value
    cfg     \* construction of the handler: options, level, faults

vars == <<req, zs, neg, cfg>>

\* request slots and gzip.Writer instances; a specification serves as many
\* of them as its initial state holds
Reqs == {"r1", "r2"}
Streams == {"z1", "z2"}
Nil == "nil"
Discard == "discard"

HuffmanOnly == 0 - 2
BestSpeed == 1
BestCompression == 9

StatusNoContent == 204
StatusNotModified == 304
StatusPartialContent == 206
StatusOK == 200

NoHeaders == [Vary |-> 0, CT |-> <<>>, CL |-> <<>>, CE |-> <<>>, CR |-> <<>>]

\* a request slot before ServeHTTP is entered: a fresh real writer, no gRW
IdleReq ==
    [phase |-> "idle", ae |-> <<>>, wrapped |-> FALSE, flusher |-> FALSE,
     \* gRW{w, z, pool, skip, wroteHeader}
     skip |-> FALSE, wroteHeader |-> FALSE, z |-> Nil,
     \* the real http.ResponseWriter
     hdr |-> NoHeaders, status |-> 0, sent |-> NoHeaders, body |-> <<>>, flushed |-> 0 - 1,
     broken |-> FALSE,
     \* history of the handler's calls and of this layer's decision
     hh |-> NoHeaders, written |-> <<>>, nWH |-> 0, nFlush |-> 0,
     first |-> [made |-> FALSE, code |-> 0, pre |-> FALSE, at |-> NoHeaders],
     dec |-> [made |-> FALSE, rule |-> 0, at |-> NoHeaders],
     gets |-> 0, puts |-> 0, uw |-> "none"]

\* a gzip.Writer as gzip.NewWriterLevel(io.Discard, level) returns it
FreshStream ==
    [st |-> "unalloc", dst |-> Discard, wroteHeader |-> FALSE, closed |-> FALSE,
     buf |-> <<>>, sum |-> <<>>, err |-> FALSE, failed |-> FALSE]

(***************************************************************************)
(* The real response writer (net/http contract): the first WriteHeader     *)
(* commits the status and the headers as they are at that moment; Write    *)
(* and Flush commit an implicit 200 first when nothing was committed.  On  *)
(* a broken connection Write returns an error and delivers nothing.        *)
(* M is the pair [req, zs]; each operation returns the pair after it.      *)
(***************************************************************************)

wWriteHeader(M, w, code) ==
    IF M.req[w].status # 0 THEN M
    ELSE [M EXCEPT !.req[w].status = code, !.req[w].sent = M.req[w].hdr]

wWrite(M, w, tok) ==
    LET M1 == wWriteHeader(M, w, StatusOK)
    IN  IF M.req[w].broken THEN M1
        ELSE [M1 EXCEPT !.req[w].body = Append(@, tok)]

wFlush(M, w) ==
    LET M1 == wWriteHeader(M, w, StatusOK)
    IN  [M1 EXCEPT !.req[w].flushed = Len(M1.req[w].body)]

Raw(p) == [k |-> "raw", d |-> <<p>>]

(***************************************************************************)
(* gzip.Writer as a black box: the member header goes out with the first   *)
(* Write, Flush or Close; written data is buffered until Flush or Close;   *)
(* Close emits the final block and the trailer (checksum and size of all   *)
(* the data written since Reset).  An error of the destination sticks in   *)
(* the writer (err): every later Write, Flush and Close returns it and     *)
(* writes nothing, until Reset; failed records that Close returned it.     *)
(***************************************************************************)

zEmit(M, s, tok) ==
    IF M.zs[s].err \/ M.zs[s].dst = Discard THEN M
    ELSE IF M.req[M.zs[s].dst].broken
         THEN [wWrite(M, M.zs[s].dst, tok) EXCEPT !.zs[s].err = TRUE]
    ELSE wWrite(M, M.zs[s].dst, tok)

zHeader(M, s) ==
    IF M.zs[s].wroteHeader THEN M
    ELSE [zEmit(M, s, [k |-> "hdr", d |-> <<>>]) EXCEPT !.zs[s].wroteHeader = TRUE]

zReset(M, s, w) ==
    [M EXCEPT !.zs[s] = [FreshStream EXCEPT !.st = M.zs[s].st, !.dst = w]]

zWrite(M, s, p) ==
    LET M1 == zHeader(M, s)
    IN  IF M.zs[s].closed \/ M.zs[s].err THEN M
        ELSE IF M1.zs[s].err THEN M1
        ELSE [M1 EXCEPT !.zs[s].buf = Append(@, p), !.zs[s].sum = Append(@, p)]

zFlush(M, s) ==
    IF M.zs[s].closed \/ M.zs[s].err THEN M
    ELSE LET M1 == zHeader(M, s)
             M2 == zEmit(M1, s, [k |-> "blk", d |-> M1.zs[s].buf])
         IN  [M2 EXCEPT !.zs[s].buf = <<>>]

zClose(M, s) ==
    IF M.zs[s].err THEN [M EXCEPT !.zs[s].failed = TRUE]
    ELSE IF M.zs[s].closed THEN M
    ELSE LET M1 == zHeader([M EXCEPT !.zs[s].closed = TRUE], s)
             M2 == zEmit(M1, s, [k |-> "fin", d |-> M1.zs[s].buf])
             M3 == zEmit(M2, s, [k |-> "crc", d |-> M1.zs[s].sum])
         IN  [M3 EXCEPT !.zs[s].buf = <<>>, !.zs[s].sum = <<>>,
                        !.zs[s].failed = M3.zs[s].err]

\* a standards-compliant decoder over what the real writer received: a
\* header, data blocks, a final block and a trailer matching the data;
\* further members may follow, anything else is an error
RECURSIVE Concat(_)
Concat(toks) == IF toks = <<>> THEN <<>> ELSE Head(toks).d \o Concat(Tail(toks))

RECURSIVE Gunzip(_)
Gunzip(b) ==
    LET fins == {i \in 1..Len(b) : b[i].k = "fin"}
        i    == CHOOSE x \in fins : \A y \in fins : x <= y
    IN  IF Len(b) < 3 \/ b[1].k # "hdr" \/ fins = {} THEN [ok |-> FALSE, data |-> <<>>]
        ELSE IF \/ \E j \in 2..(i - 1) : b[j].k # "blk"
                \/ i + 1 > Len(b)
                \/ b[i + 1].k # "crc"
                \/ b[i + 1].d # Concat(SubSeq(b, 2, i))
             THEN [ok |-> FALSE, data |-> <<>>]
        ELSE IF i + 1 = Len(b) THEN [ok |-> TRUE, data |-> Concat(SubSeq(b, 2, i))]
        ELSE LET rest == Gunzip(SubSeq(b, i + 2, Len(b)))
             IN  [ok |-> rest.ok, data |-> Concat(SubSeq(b, 2, i)) \o rest.data]

(***************************************************************************)
(* The pool                                                                *)
(***************************************************************************)

\* the streams pool.Get may return: one put back earlier, or a new one
\* made by the pool's New function
Gettable(M) ==
    LET new == {s \in DOMAIN M.zs : M.zs[s].st = "unalloc"}
    IN  {s \in DOMAIN M.zs : M.zs[s].st = "pooled"}
          \cup (IF new = {} THEN {} ELSE {CHOOSE s \in new : TRUE})

\* what a handler call may get from the pool if it asks: Nil stands for no
\* stream left to hand out, which a call that asks for none never notices
GetChoices(M) == IF Gettable(M) = {} THEN {Nil} ELSE Gettable(M)

\* a variant that hands a stream out and leaves it in the pool
GetWithoutRemoving(M, s) ==
    IF M.zs[s].st = "unalloc"
    THEN [M EXCEPT !.zs[s] = [FreshStream EXCEPT !.st = "pooled"]]
    ELSE M

Get(M, s) ==
    IF M.zs[s].st = "unalloc"
    THEN [M EXCEPT !.zs[s] = [FreshStream EXCEPT !.st = "held"]]
    ELSE [M EXCEPT !.zs[s].st = "held"]

Put(M, s) == [M EXCEPT !.zs[s].st = "pooled"]

(***************************************************************************)
(* gRW                                                                     *)
(***************************************************************************)

\* variants of the rules: no Content-Range rule; a threshold that is
\* inclusive; an absent Content-Type taken as unsupported
initRuleNoRange(h) ==
    IF h.CE # <<>> THEN 2
    ELSE IF h.CL # <<>> /\ ~Atoi(h.CL).err /\ Atoi(h.CL).n < compressThreshold THEN 3
    ELSE IF h.CT # <<>> /\ ~supportedContentType(h.CT) THEN 4
    ELSE 5

initRuleInclusive(h) ==
    IF h.CR # <<>> THEN 1
    ELSE IF h.CE # <<>> THEN 2
    ELSE IF h.CL # <<>> /\ ~Atoi(h.CL).err /\ Atoi(h.CL).n <= compressThreshold THEN 3
    ELSE IF h.CT # <<>> /\ ~supportedContentType(h.CT) THEN 4
    ELSE 5

initRuleTypeRequired(h) ==
    IF h.CR # <<>> THEN 1
    ELSE IF h.CE # <<>> THEN 2
    ELSE IF h.CL # <<>> /\ ~Atoi(h.CL).err /\ Atoi(h.CL).n < compressThreshold THEN 3
    ELSE IF ~supportedContentType(h.CT) THEN 4
    ELSE 5

\* which rule of init decides, for the headers h: 1 Content-Range,
\* 2 Content-Encoding, 3 Content-Length below the threshold, 4 unsupported
\* Content-Type, 5 none (compress)
initRule(h) ==
    IF h.CR # <<>> THEN 1
    ELSE IF h.CE # <<>> THEN 2
    ELSE IF h.CL # <<>> /\ ~Atoi(h.CL).err /\ Atoi(h.CL).n < compressThreshold THEN 3
    ELSE IF h.CT # <<>> /\ ~supportedContentType(h.CT) THEN 4
    ELSE 5

\* a variant whose Content-Type rule sets skip without returning
initMissingReturn(M, r, s) ==
    LET q    == M.req[r]
        rule == initRule(q.hdr)
        M1   == [M EXCEPT !.req[r].dec = [made |-> TRUE, rule |-> rule, at |-> q.hdr]]
    IN  IF q.skip \/ q.z # Nil THEN M
        ELSE IF rule \in {1, 2, 3} THEN [M1 EXCEPT !.req[r].skip = TRUE]
        ELSE LET M2 == zReset(Get(M1, s), s, r)
             IN  [M2 EXCEPT !.req[r].skip = (rule = 4),
                            !.req[r].z = s,
                            !.req[r].gets = @ + 1,
                            !.req[r].hdr.CE = <<"g", "z", "i", "p">>,
                            !.req[r].hdr.CL = <<>>]

\* g.init(); s is the stream g.pool.Get() returns if it is called
init(M, r, s) ==
    LET q    == M.req[r]
        rule == initRule(q.hdr)
        M1   == [M EXCEPT !.req[r].dec = [made |-> TRUE, rule |-> rule, at |-> q.hdr]]
    IN  IF q.skip \/ q.z # Nil THEN M
        ELSE IF rule # 5 THEN [M1 EXCEPT !.req[r].skip = TRUE]
        ELSE LET M2 == zReset(Get(M1, s), s, r)
             IN  [M2 EXCEPT !.req[r].z = s,
                            !.req[r].gets = @ + 1,
                            !.req[r].hdr.CE = <<"g", "z", "i", "p">>,
                            !.req[r].hdr.CL = <<>>]

NoDecisionCodes == {StatusNoContent, StatusNotModified, StatusPartialContent}

\* a variant that decides on 206 as on any other status
WriteHeaderPartialDecides(M, r, code, s) ==
    LET q  == M.req[r]
        M1 == [M EXCEPT !.req[r].wroteHeader = TRUE,
                        !.req[r].first =
                            IF q.wroteHeader THEN @
                            ELSE [made |-> TRUE, code |-> code,
                                  pre |-> q.status # 0, at |-> q.hdr]]
        M2 == IF q.z = Nil /\ code \notin {StatusNoContent, StatusNotModified}
              THEN init(M1, r, s) ELSE M1
    IN  wWriteHeader(M2, r, code)

\* g.WriteHeader(code)
WriteHeader(M, r, code, s) ==
    LET q  == M.req[r]
        M1 == [M EXCEPT !.req[r].wroteHeader = TRUE,
                        !.req[r].first =
                            IF q.wroteHeader THEN @
                            ELSE [made |-> TRUE, code |-> code,
                                  pre |-> q.status # 0, at |-> q.hdr]]
        M2 == IF q.z = Nil /\ code \notin NoDecisionCodes THEN init(M1, r, s) ELSE M1
    IN  wWriteHeader(M2, r, code)

\* a variant that evaluates the skip rules in Write whenever no stream is held
WriteDecidesLate(M, r, b, s) ==
    LET q  == M.req[r]
        M1 == IF q.wroteHeader THEN M
              ELSE LET M0 == IF q.hdr.CT = <<>>
                             THEN [M EXCEPT !.req[r].hdr.CT = DetectContentType(b)]
                             ELSE M
                   IN  WriteHeader(M0, r, StatusOK, s)
        M2 == IF M1.req[r].z = Nil THEN init(M1, r, s) ELSE M1
        g  == M2.req[r]
    IN  IF g.skip \/ g.z = Nil THEN wWrite(M2, r, Raw(b)) ELSE zWrite(M2, g.z, b)

\* a variant that commits the status first and sniffs the Content-Type afterwards
WriteSniffsLate(M, r, b, s) ==
    LET q  == M.req[r]
        M1 == IF q.wroteHeader THEN M
              ELSE LET M0 == WriteHeader(M, r, StatusOK, s)
                   IN  IF M0.req[r].hdr.CT = <<>>
                       THEN [M0 EXCEPT !.req[r].hdr.CT = DetectContentType(b)]
                       ELSE M0
        g  == M1.req[r]
    IN  IF g.skip \/ g.z = Nil THEN wWrite(M1, r, Raw(b)) ELSE zWrite(M1, g.z, b)

\* g.Write(b)
Write(M, r, b, s) ==
    LET q  == M.req[r]
        M1 == IF q.wroteHeader THEN M
              ELSE LET M0 == IF q.hdr.CT = <<>>
                             THEN [M EXCEPT !.req[r].hdr.CT = DetectContentType(b)]
                             ELSE M
                   IN  WriteHeader(M0, r, StatusOK, s)
        g  == M1.req[r]
    IN  IF g.skip \/ g.z = Nil THEN wWrite(M1, r, Raw(b)) ELSE zWrite(M1, g.z, b)

\* a variant that flushes the real writer before the compressor
FlushRealWriterFirst(M, r) ==
    LET M1 == IF M.req[r].flusher THEN wFlush(M, r) ELSE M
    IN  IF M1.req[r].z # Nil THEN zFlush(M1, M1.req[r].z) ELSE M1

\* g.Flush()
Flush(M, r) ==
    LET M1 == IF M.req[r].z # Nil THEN zFlush(M, M.req[r].z) ELSE M
    IN  IF M1.req[r].flusher THEN wFlush(M1, r) ELSE M1

\* a variant that puts the stream back without finishing it
CloseUnfinished(M, r) ==
    LET z == M.req[r].z
    IN  IF z = Nil THEN M
        ELSE LET M2 == IF M.req[r].flusher THEN wFlush(M, r) ELSE M
                 M3 == Put(M2, z)
             IN  [M3 EXCEPT !.req[r].z = Nil, !.req[r].puts = @ + 1]

\* g.Close()
Close(M, r) ==
    LET z == M.req[r].z
    IN  IF z = Nil THEN M
        ELSE LET M1 == zClose(M, z)
                 M2 == IF M1.req[r].flusher THEN wFlush(M1, r) ELSE M1
                 M3 == Put(M2, z)
             IN  [M3 EXCEPT !.req[r].z = Nil, !.req[r].puts = @ + 1]

\* the methods of *gRW
gRWMethods == {"Header", "WriteHeader", "Write", "Flush", "Close"}


(***************************************************************************)
(* Bounds on one handler run, and the inputs a handler draws from          *)
(***************************************************************************)

MaxWrites == 2
MaxFlushes == 1

AcceptEncodings == {<<"g", "z", "i", "p">>, <<"g", "z", "i", "p", ";", "q", "=", "0">>}

ContentTypes == {<<>>, <<"t", "e", "x", "t", "/", "h", "t", "m", "l">>, <<"a", "p", "p", "l", "i", "c", "a", "t", "i", "o", "n", "/", "o", "c", "t", "e", "t", "-", "s", "t", "r", "e", "a", "m">>, <<"i", "m", "a", "g", "e", "/", "s", "v", "g", "+", "x", "m", "l">>}
ContentLengths == {<<>>, <<"9", "9", "9">>, <<"1", "0", "0", "0">>, <<"1", "e", "3">>}
ContentEncodings == {<<>>, <<"b", "r">>}
ContentRanges == {<<>>, <<"b", "y", "t", "e", "s", " ", "0", "-", "1", "/", "2">>}
StatusCodes == {StatusOK, StatusNoContent, StatusNotModified, StatusPartialContent}

HeaderValues(name) ==
    CASE name = "CT" -> ContentTypes
      [] name = "CL" -> ContentLengths
      [] name = "CE" -> ContentEncodings
      [] name = "CR" -> ContentRanges

Cur == [req |-> req, zs |-> zs]

Step(M) == req' = M.req /\ zs' = M.zs /\ UNCHANGED <<neg, cfg>>

\* the state as a handler call finds it; uw holds the result of an Unwrap
\* attempt only until the handler's next call
Call(r) == [req |-> [req EXCEPT ![r].uw = "none"], zs |-> zs]

InHandler(r) == req[r].phase = "handler"

(***************************************************************************)
(* Dispatcher and the wrapped handler's calls                              *)
(***************************************************************************)

\* gzipHandler.ServeHTTP up to the call of the wrapped handler; requests
\* are served one at a time
ServeHTTP(r) ==
    /\ cfg.pc = "built"
    /\ \A o \in DOMAIN req : req[o].phase = "idle"
    /\ \E ae \in AcceptEncodings, fl \in BOOLEAN :
         req' = [req EXCEPT ![r] = [IdleReq EXCEPT !.phase = "handler",
                                                   !.ae = ae,
                                                   !.flusher = fl,
                                                   !.hdr.Vary = 1,
                                                   !.wrapped = acceptsGzip(ae)]]
    /\ UNCHANGED <<zs, neg, cfg>>

\* the handler: w.Header().Set(name, v); gRW.Header() is the real writer's
HSetHeader(r) ==
    /\ InHandler(r)
    /\ req[r].status = 0 /\ ~req[r].wroteHeader
    /\ \E name \in {"CT", "CL", "CE", "CR"} : \E v \in HeaderValues(name) :
         Step([Call(r) EXCEPT !.req[r].hdr[name] = v, !.req[r].hh[name] = v])

\* the handler: w.WriteHeader(code)
HWriteHeader(r) ==
    /\ InHandler(r)
    /\ \E code \in StatusCodes : \E s \in GetChoices(Cur) :
         LET M1 == [Call(r) EXCEPT !.req[r].nWH = IF @ = 0 THEN 1 ELSE 2]
         IN  Step(IF req[r].wrapped THEN WriteHeader(M1, r, code, s)
                  ELSE wWriteHeader(M1, r, code))

\* the handler: w.Write(b)
HWrite(r) ==
    /\ InHandler(r)
    /\ Len(req[r].written) < MaxWrites
    /\ \E b \in Payloads : \E s \in GetChoices(Cur) :
         LET M1 == [Call(r) EXCEPT !.req[r].written = Append(@, b)]
         IN  Step(IF req[r].wrapped THEN Write(M1, r, b, s) ELSE wWrite(M1, r, Raw(b)))

\* the handler: w.(http.Flusher).Flush(); *gRW always has the method, the
\* real writer may not
HFlush(r) ==
    /\ InHandler(r)
    /\ req[r].nFlush < MaxFlushes
    /\ req[r].wrapped \/ req[r].flusher
    /\ LET M1 == [Call(r) EXCEPT !.req[r].nFlush = @ + 1]
       IN  Step(IF req[r].wrapped THEN Flush(M1, r) ELSE wFlush(M1, r))

\* the handler: uw, ok := w.(interface{ Unwrap() http.ResponseWriter })
HUnwrap(r) ==
    /\ InHandler(r)
    /\ req[r].wrapped
    /\ req[r].status = 0 /\ ~req[r].wroteHeader
    /\ req' = [req EXCEPT ![r].uw = IF "Unwrap" \in gRWMethods THEN "real" ELSE "absent"]
    /\ UNCHANGED <<zs, neg, cfg>>

\* the handler returns: the deferred z.Close() runs, ServeHTTP returns
HReturn(r) ==
    /\ InHandler(r)
    /\ LET M1 == IF req[r].wrapped THEN Close(Call(r), r) ELSE Call(r)
       IN  Step([M1 EXCEPT !.req[r].phase = "done"])

\* a variant in which Close is not deferred and a panic skips it
HPanicSkipsClose(r) ==
    /\ InHandler(r)
    /\ Step([Call(r) EXCEPT !.req[r].phase = "done"])

\* the handler panics: the deferred z.Close() runs while unwinding
HPanic(r) ==
    /\ InHandler(r)
    /\ LET M1 == IF req[r].wrapped THEN Close(Call(r), r) ELSE Call(r)
       IN  Step([M1 EXCEPT !.req[r].phase = "done"])

\* the server is finished with the response: the next request gets a new
\* real writer
Recycle(r) ==
    /\ req[r].phase = "done"
    /\ req' = [req EXCEPT ![r] = IdleReq]
    /\ UNCHANGED <<zs, neg, cfg>>

\* ServeHTTP on its own goroutine while other requests are in flight, for a
\* client that accepts gzip and a real writer that can flush
ServeConcurrently(r) ==
    /\ cfg.pc = "built"
    /\ req[r].phase = "idle"
    /\ \E ae \in {a \in AcceptEncodings : acceptsGzip(a)} :
         req' = [req EXCEPT ![r] = [IdleReq EXCEPT !.phase = "handler",
                                                   !.ae = ae,
                                                   !.flusher = TRUE,
                                                   !.hdr.Vary = 1,
                                                   !.wrapped = acceptsGzip(ae)]]
    /\ UNCHANGED <<zs, neg, cfg>>

\* the client goes away: from now on the real writer's Write returns an error
ConnLost(r) ==
    /\ InHandler(r)
    /\ ~req[r].broken
    /\ req' = [req EXCEPT ![r].broken = TRUE]
    /\ UNCHANGED <<zs, neg, cfg>>

\* sync.Pool is a cache: an idle stream may be dropped at any time
PoolGC ==
    /\ \E s \in DOMAIN zs :
         /\ zs[s].st = "pooled"
         /\ zs' = [zs EXCEPT ![s] = FreshStream]
    /\ UNCHANGED <<req, neg, cfg>>

(***************************************************************************)
(* Construction: WithLevel, New, and the pool's New function               *)
(***************************************************************************)

MaxOptions == 2
Levels == (HuffmanOnly - 2)..(BestCompression + 2)

\* whether gzip.NewWriterLevel(w, level) returns an error
NewWriterLevelErr(level) == level < HuffmanOnly \/ level > BestCompression

\* a variant that checks the upper end of the range only
WithLevelPanicsUpperOnly(level) == level > BestCompression

\* WithLevel(level): TRUE when it panics instead of returning an option
WithLevelPanics(level) == NewWriterLevelErr(level)

\* the level of the pool of the handler New(h, options...) returns
NewLevel(opts) == IF opts = <<>> THEN BestSpeed ELSE opts[Len(opts)]

\* the New function of the pool made by newWriterPool(level): TRUE when it panics
PoolNewPanics(level) == NewWriterLevelErr(level)

CfgStart ==
    [pc |-> "setup", opts |-> <<>>, calls |-> 0, last |-> 0, level |-> 0,
     made |-> 0, fault |-> FALSE]

CfgBuilt == [CfgStart EXCEPT !.pc = "built", !.level = NewLevel(<<>>)]

CallWithLevel ==
    /\ cfg.pc = "setup"
    /\ cfg.calls < MaxOptions
    /\ \E level \in Levels :
         cfg' = IF WithLevelPanics(level)
                THEN [cfg EXCEPT !.pc = "panicked", !.calls = @ + 1, !.last = level]
                ELSE [cfg EXCEPT !.opts = Append(@, level), !.calls = @ + 1, !.last = level]
    /\ UNCHANGED <<req, zs, neg>>

CallNew ==
    /\ cfg.pc = "setup"
    /\ cfg' = [cfg EXCEPT !.pc = "built", !.level = NewLevel(cfg.opts)]
    /\ UNCHANGED <<req, zs, neg>>

\* request handling asks the pool for a stream and the pool has none
CallPoolNew ==
    /\ cfg.pc = "built"
    /\ cfg.made < MaxOptions
    /\ ~cfg.fault
    /\ cfg' = IF PoolNewPanics(cfg.level) THEN [cfg EXCEPT !.fault = TRUE]
              ELSE [cfg EXCEPT !.made = @ + 1]
    /\ UNCHANGED <<req, zs, neg>>

(***************************************************************************)
(* The negotiator on its own                                               *)
(***************************************************************************)

MaxEntries == 2

Entries ==
    {<<>>, <<"g", "z", "i", "p">>, <<" ", "g", "z", "i", "p", " ">>, <<"*">>, <<"f", "g", "z", "i", "p">>, <<"b", "r">>, <<"G", "Z", "I", "P">>,
     <<"g", "z", "i", "p", ";", "q", "=", "1", ".", "0">>, <<"g", "z", "i", "p", ";", "q", "=", "0", ".", "0">>, <<"g", "z", "i", "p", ";", " ", "q", "=", "0", ".", "5">>, <<"g", "z", "i", "p", ";", "q", "=", "-", "1">>, <<"g", "z", "i", "p", ";", " ", "q", "=", "X">>,
     <<"g", "z", "i", "p", ";", "B", "A", "D">>, <<"g", "z", "i", "p", ";">>, <<"g", "z", "i", "p", ";", "q", "=">>, <<"g", "z", "i", "p", ";", "q", " ", "=", " ", "1">>, <<"g", "z", "i", "p", " ", ";", "q", "=", ".", "5", " ">>,
     <<"g", "z", "i", "p", ";", "q", "=", "1", ";", "x">>, <<"*", ";", "q", "=", "1">>, <<"b", "r", ";", "q", "=", "0">>}

RECURSIVE Join(_)
Join(es) ==
    IF Len(es) = 0 THEN <<>>
    ELSE IF Len(es) = 1 THEN es[1]
    ELSE es[1] \o <<",">> \o Join(Tail(es))

EntryLists == UNION {[1..n -> Entries] : n \in 0..MaxEntries}

NegIdle == [pc |-> "idle", hdr |-> <<>>, res |-> FALSE]

Negotiate ==
    /\ neg.pc = "in"
    /\ neg' = [neg EXCEPT !.pc = "out", !.res = allowsGzip(neg.hdr)]
    /\ UNCHANGED <<req, zs, cfg>>

(***************************************************************************)
(* Specifications                                                          *)
(***************************************************************************)

Init ==
    /\ req = [r \in {"r1"} |-> IdleReq]
    /\ zs = [s \in {"z1"} |-> FreshStream]
    /\ neg = NegIdle
    /\ cfg = CfgBuilt

Next ==
    \/ \E r \in DOMAIN req :
         \/ ServeHTTP(r)
         \/ HSetHeader(r)
         \/ HWriteHeader(r)
         \/ HWrite(r)
         \/ HFlush(r)
         \/ HUnwrap(r)
         \/ HReturn(r)
         \/ HPanic(r)
         \/ Recycle(r)
    \/ PoolGC

Spec == Init /\ [][Next]_vars

\* concurrent requests on one handler, sharing its pool
InitPool ==
    /\ req = [r \in Reqs |-> IdleReq]
    /\ zs = [s \in Streams |-> FreshStream]
    /\ neg = NegIdle
    /\ cfg = CfgBuilt

NextPool ==
    \/ \E r \in DOMAIN req :
         \/ ServeConcurrently(r)
         \/ HWrite(r)
         \/ ConnLost(r)
         \/ HReturn(r)
         \/ Recycle(r)
    \/ PoolGC

SpecPool == InitPool /\ [][NextPool]_vars

InitSetup ==
    /\ req = [r \in Reqs |-> IdleReq]
    /\ zs = [s \in Streams |-> FreshStream]
    /\ neg = NegIdle
    /\ cfg = CfgStart

NextSetup == CallWithLevel \/ CallNew \/ CallPoolNew

SpecSetup == InitSetup /\ [][NextSetup]_vars

InitNeg ==
    /\ req = [r \in Reqs |-> IdleReq]
    /\ zs = [s \in Streams |-> FreshStream]
    /\ cfg = CfgBuilt
    /\ \E es \in EntryLists : neg = [pc |-> "in", hdr |-> Join(es), res |-> FALSE]

NextNeg == Negotiate

SpecNeg == InitNeg /\ [][NextNeg]_vars


(***************************************************************************)
(* What the specification's sentences mean, stated without the code        *)
(***************************************************************************)

\* the first comma-separated entry whose trimmed token is "gzip" decides:
\* no parameter accepts, a parameter q=<number> accepts when the number is
\* positive, anything else rejects; no such entry rejects
FirstGzipVerdict(h) ==
    LET es    == Split(h, ",")
        tok(e) == TrimSpace(IF IndexOf(e, ";") = 0 THEN e ELSE SubSeq(e, 1, IndexOf(e, ";") - 1))
        hits  == {i \in 1..Len(es) : tok(es[i]) = <<"g", "z", "i", "p">>}
        e     == es[CHOOSE i \in hits : \A j \in hits : i <= j]
        param == TrimSpace(SubSeq(e, IndexOf(e, ";") + 1, Len(e)))
        num   == SubSeq(param, 3, Len(param))
    IN  IF hits = {} THEN FALSE
        ELSE IF IndexOf(e, ";") = 0 THEN TRUE
        ELSE /\ Len(param) >= 2 /\ param[1] = "q" /\ param[2] = "="
             /\ ~ParseFloat(num).err
             /\ ParseFloat(num).sign = 1

\* the supported set of content types
InSupportedSet(ct) ==
    \/ ct \in {<<"i", "m", "a", "g", "e", "/", "s", "v", "g", "+", "x", "m", "l">>, <<"f", "o", "n", "t", "/", "w", "o", "f", "f">>, <<"f", "o", "n", "t", "/", "w", "o", "f", "f", "2">>}
    \/ HasPrefix(ct, <<"t", "e", "x", "t", "/">>)
    \/ /\ HasPrefix(ct, <<"a", "p", "p", "l", "i", "c", "a", "t", "i", "o", "n", "/">>)
       /\ \E w \in {<<"j", "s", "o", "n">>, <<"j", "a", "v", "a", "s", "c", "r", "i", "p", "t">>, <<"x", "m", "l">>} : Contains(ct, w)

\* a declared Content-Length that parses as an integer below the threshold
SmallLength(cl) == cl # <<>> /\ ~Atoi(cl).err /\ Atoi(cl).n < 1000

\* the handler's payloads as they arrive when nothing compresses them
RawBody(q) == [i \in 1..Len(q.written) |-> Raw(q.written[i])]

NoRawBytes(q) == \A i \in 1..Len(q.body) : q.body[i].k # "raw"

Active == {r \in DOMAIN req : req[r].phase # "idle"}

(***************************************************************************)
(* Properties                                                              *)
(***************************************************************************)

\* C1: a request whose Accept-Encoding does not allow gzip gets the real
\* writer: no stream is acquired, Content-Encoding and Content-Length stay
\* as the handler set them, and the real writer receives exactly the bytes
\* the handler wrote, for every sequence of handler calls.
C1_NonAcceptingPassThrough ==
    \A r \in Active :
        ~FirstGzipVerdict(req[r].ae) =>
            /\ ~req[r].wrapped
            /\ req[r].gets = 0 /\ req[r].z = Nil
            /\ \A s \in DOMAIN zs : zs[s].st # "held"
            /\ req[r].hdr.CE = req[r].hh.CE
            /\ req[r].hdr.CL = req[r].hh.CL
            /\ req[r].body = RawBody(req[r])

C1_Witness ==
    \E r \in Active :
        /\ req[r].phase = "done"
        /\ req[r].ae = <<"g", "z", "i", "p", ";", "q", "=", "0">>
        /\ req[r].hh.CT = <<"t", "e", "x", "t", "/", "h", "t", "m", "l">> /\ req[r].hh.CL = <<"1", "0", "0", "0">>
        /\ req[r].status = StatusOK
        /\ Len(req[r].written) = 2
        /\ req[r].flushed = 1

C3_CompressAtFirstCommit ==
    \A r \in Active :
        LET q == req[r]
            h == q.first.at
        IN  ( /\ q.wrapped /\ q.first.made /\ ~q.first.pre
              /\ q.first.code \notin {204, 304, 206}
              /\ h.CR = <<>> /\ h.CE = <<>> /\ ~SmallLength(h.CL)
              /\ (h.CT = <<>> \/ InSupportedSet(h.CT)) ) =>
                /\ q.dec.made /\ q.dec.rule = 5 /\ ~q.skip
                /\ q.status = q.first.code
                /\ q.sent.CE = <<"g", "z", "i", "p">> /\ q.sent.CL = <<>>
                /\ q.gets = 1
                /\ NoRawBytes(q)
                /\ (q.phase = "handler" => q.z # Nil /\ zs[q.z].dst = r)

C3_Witness ==
    \E r \in Active :
        LET q == req[r]
        IN  /\ q.first.made /\ q.first.code = StatusOK /\ ~q.first.pre
            /\ q.nWH = 0
            /\ q.hh.CT = <<>> /\ q.first.at.CT = <<"t", "e", "x", "t", "/", "p", "l", "a", "i", "n", ";", " ", "c", "h", "a", "r", "s", "e", "t", "=", "u", "t", "f", "-", "8">>
            /\ q.first.at.CL = <<"1", "0", "0", "0">>
            /\ q.sent.CE = <<"g", "z", "i", "p">> /\ q.sent.CL = <<>>
            /\ Len(q.written) = 2 /\ q.phase = "done"

\* C4: a response that carries a Content-Range or a Content-Encoding when
\* the decision is evaluated is skipped: no stream is acquired, the
\* handler's Content-Range, Content-Encoding and Content-Length stay as
\* they are and the body reaches the real writer unmodified.
C4_SkipOnRangeOrEncoding ==
    \A r \in Active :
        LET q == req[r]
        IN  (q.dec.made /\ (q.dec.at.CR # <<>> \/ q.dec.at.CE # <<>>)) =>
                /\ q.skip /\ q.dec.rule \in {1, 2}
                /\ q.gets = 0 /\ q.z = Nil
                /\ q.hdr.CR = q.dec.at.CR /\ q.hdr.CR = q.hh.CR
                /\ q.hdr.CE = q.dec.at.CE /\ q.hdr.CE = q.hh.CE
                /\ q.hdr.CL = q.dec.at.CL /\ q.hdr.CL = q.hh.CL
                /\ q.body = RawBody(q)

C4_Witness ==
    \E r \in Active :
        LET q == req[r]
        IN  /\ q.dec.made /\ q.dec.at.CE = <<"b", "r">> /\ q.dec.at.CR = <<>>
            /\ q.dec.at.CT = <<"t", "e", "x", "t", "/", "h", "t", "m", "l">> /\ q.dec.at.CL = <<"1", "0", "0", "0">>
            /\ Len(q.written) = 2 /\ q.phase = "done"

\* C5: the size rule skips exactly when the declared Content-Length parses
\* as an integer below 1000: such a response is never compressed, this
\* layer sets no Content-Encoding and keeps the Content-Length; an absent,
\* unparsable or larger Content-Length never by itself prevents compression.
C5_SizeRule ==
    \A r \in Active :
        LET q == req[r]
            h == q.dec.at
        IN  q.dec.made =>
                /\ (q.dec.rule = 3) = (h.CR = <<>> /\ h.CE = <<>> /\ SmallLength(h.CL))
                /\ SmallLength(h.CL) =>
                       /\ q.skip /\ q.gets = 0
                       /\ q.hdr.CE = q.hh.CE
                       /\ q.hdr.CL = h.CL
                       /\ q.body = RawBody(q)
                /\ ( /\ ~SmallLength(h.CL) /\ h.CR = <<>> /\ h.CE = <<>>
                     /\ (h.CT = <<>> \/ InSupportedSet(h.CT)) ) =>
                       q.dec.rule = 5 /\ q.gets = 1

C5_Witness ==
    \E r \in Active :
        LET q == req[r]
        IN  /\ q.dec.made /\ q.dec.rule = 3 /\ q.dec.at.CL = <<"9", "9", "9">>
            /\ q.dec.at.CT = <<"t", "e", "x", "t", "/", "h", "t", "m", "l">>
            /\ q.hdr.CL = <<"9", "9", "9">> /\ q.hdr.CE = <<>>
            /\ Len(q.written) = 1 /\ q.phase = "done"

\* C6: a response whose handler set a non-empty Content-Type outside the
\* supported set is delivered uncompressed and this layer sets no
\* Content-Encoding, whatever the size and whether or not a length is
\* declared.
C6_SkipOnContentType ==
    \A r \in Active :
        LET q == req[r]
        IN  /\ (q.hh.CT # <<>> /\ ~InSupportedSet(q.hh.CT)) =>
                  /\ q.gets = 0 /\ q.z = Nil
                  /\ q.hdr.CE = q.hh.CE
                  /\ q.body = RawBody(q)
            /\ (q.dec.made /\ q.dec.at.CT # <<>> /\ ~InSupportedSet(q.dec.at.CT)) =>
                  q.skip /\ q.gets = 0

C6_Witness ==
    \E r \in Active :
        LET q == req[r]
        IN  /\ q.wrapped /\ q.phase = "done"
            /\ q.hh.CT = <<"a", "p", "p", "l", "i", "c", "a", "t", "i", "o", "n", "/", "o", "c", "t", "e", "t", "-", "s", "t", "r", "e", "a", "m">>
            /\ q.dec.made /\ q.dec.rule = 4 /\ q.dec.at.CL = <<"1", "0", "0", "0">>
            /\ q.hdr.CE = <<>>
            /\ Len(q.written) = 2

\* C7: when the handler's only WriteHeader call has status 206, 204 or 304,
\* then whatever Write and Flush calls follow the response is not
\* compressed: this layer sets no Content-Encoding and the body reaches the
\* real writer unmodified.
C7_NoDecisionCodesStayRaw ==
    \A r \in Active :
        LET q == req[r]
        IN  (q.wrapped /\ q.first.made /\ q.first.code \in {206, 204, 304} /\ q.nWH = 1) =>
                /\ ~q.dec.made /\ q.gets = 0 /\ q.z = Nil
                /\ q.hdr.CE = q.hh.CE
                /\ q.body = RawBody(q)

C7_Witness ==
    \E r \in Active :
        LET q == req[r]
        IN  /\ q.wrapped /\ q.first.made /\ q.first.code = 206 /\ q.nWH = 1
            /\ q.hh.CT = <<"t", "e", "x", "t", "/", "h", "t", "m", "l">> /\ q.hh.CL = <<>>
            /\ Len(q.written) = 2 /\ q.nFlush = 1 /\ q.phase = "done"

\* C8: the writer handed to the handler of a gzip-accepting request has an
\* Unwrap operation and it returns the real writer.
C8_UnwrapReturnsRealWriter ==
    \A r \in Active :
        (req[r].wrapped /\ req[r].uw # "none") => req[r].uw = "real"

\* C9: WithLevel panics when called exactly if the level is outside
\* HuffmanOnly..BestCompression, and the pool of a handler that New built
\* never panics when it makes a stream during request handling.
C9_LevelFaultsAtSetupOnly ==
    /\ cfg.calls > 0 => ((cfg.pc = "panicked") = (cfg.last < 0 - 2 \/ cfg.last > 9))
    /\ \A i \in 1..Len(cfg.opts) : cfg.opts[i] \in (0 - 2)..9
    /\ cfg.pc = "built" => cfg.level \in (0 - 2)..9
    /\ ~cfg.fault

C9_Witness ==
    /\ cfg.pc = "built" /\ cfg.made > 0
    /\ cfg.opts = <<0 - 2, 9>> /\ cfg.level = 9

\* C10: allowsGzip answers what the first entry with token "gzip" says and
\* never scans past it; without such an entry it answers false.
C10_FirstGzipEntryDecides ==
    neg.pc = "out" => neg.res = FirstGzipVerdict(neg.hdr)

C10_Witness ==
    /\ neg.pc = "out"
    /\ neg.hdr = <<"g", "z", "i", "p", ";", "B", "A", "D", ",", "g", "z", "i", "p">>
    /\ neg.res = FALSE


(***************************************************************************)
(* C11.  A request makes at most one compression decision and never        *)
(* reverts it: skip and a held stream are never both set; once skipping,   *)
(* the request keeps skipping and never acquires a stream; once            *)
(* compressing, the same stream is held until Close; the pool's Get is     *)
(* called at most once per request.                                        *)
(***************************************************************************)
DecisionState(q) ==
    /\ ~(q.skip /\ q.z # Nil)
    /\ q.gets <= 1
    /\ q.skip => q.gets = 0 /\ q.dec.made /\ q.dec.rule # 5
    /\ q.z # Nil => q.gets = 1 /\ q.dec.made /\ q.dec.rule = 5 /\ zs[q.z].st = "held"
    /\ q.dec.made => q.skip \/ q.gets = 1

DecisionKept(r) ==
    /\ req[r].skip => req'[r].skip
    /\ req[r].dec.made => req'[r].dec = req[r].dec
    /\ req[r].gets = 1 /\ req'[r].phase = "handler" => req'[r].z = req[r].z /\ req[r].z # Nil
    /\ req'[r].gets >= req[r].gets

C11_OneDecision ==
    /\ [](\A r \in Active : DecisionState(req[r]))
    /\ [][\A r \in DOMAIN req :
              req[r].phase = "handler" /\ req'[r].phase # "idle" => DecisionKept(r)]_vars

C11_Witness ==
    \E r \in Active :
        /\ req[r].z # Nil /\ req[r].nWH = 2 /\ Len(req[r].written) = 2
        /\ req[r].first.code \in NoDecisionCodes


(***************************************************************************)
(* C12.  The decorator never changes the response headers after the real   *)
(* writer has committed the status line: Content-Encoding gzip, the        *)
(* removal of Content-Length and the sniffed Content-Type are all in the   *)
(* headers the real writer committed, for every sequence of handler calls  *)
(* (a second WriteHeader with another code and a Flush before the first    *)
(* Write included), and Content-Encoding gzip is there exactly when the    *)
(* request compresses.                                                     *)
(***************************************************************************)
C12_HeadersFixedAtCommit ==
    \A r \in Active :
        req[r].wrapped /\ req[r].status # 0 =>
            /\ req[r].sent.CT = req[r].hdr.CT
            /\ req[r].sent.CE = req[r].hdr.CE
            /\ req[r].sent.CL = req[r].hdr.CL
            /\ (req[r].sent.CE = <<"g", "z", "i", "p">>) = (req[r].gets = 1)


(***************************************************************************)
(* C13, as stated.  After WriteHeader with 204, 304 or 206 the decision    *)
(* is deferred and the first body Write that follows evaluates the skip    *)
(* rules, so a request whose first commit had such a code and that has     *)
(* written body bytes has made its decision.                               *)
(***************************************************************************)
C13_WriteAfterDeferralDecides ==
    \A r \in Active :
        /\ req[r].wrapped /\ req[r].first.made
        /\ req[r].first.code \in NoDecisionCodes
        /\ req[r].written # <<>>
        => req[r].dec.made

(***************************************************************************)
(* C13, amended.  After WriteHeader with 204, 304 or 206 no decision is    *)
(* made, and the body Writes that follow do not evaluate the skip rules    *)
(* either: the request stays undecided and holds no stream.  When the      *)
(* first WriteHeader call (explicit, or the implicit 200 of a first Write) *)
(* carries any other code, the decision is made by that call against the   *)
(* headers as they are then; before that call there is no decision.        *)
(***************************************************************************)
C13_DeferredStaysUndecided ==
    \A r \in Active :
        req[r].wrapped =>
            /\ ~req[r].first.made => ~req[r].dec.made
            /\ req[r].first.made /\ req[r].first.code \in NoDecisionCodes /\ req[r].nWH = 1
               => ~req[r].dec.made /\ ~req[r].skip /\ req[r].z = Nil /\ req[r].gets = 0
            /\ req[r].first.made /\ req[r].first.code \notin NoDecisionCodes
               => req[r].dec.made /\ req[r].dec.at = req[r].first.at

C13_Witness ==
    \E r \in Active :
        /\ req[r].wrapped /\ req[r].phase = "done"
        /\ req[r].first.code = StatusPartialContent /\ req[r].nWH = 1
        /\ Len(req[r].written) = 2 /\ ~req[r].dec.made


(***************************************************************************)
(* C14.  When the handler writes body bytes without having called          *)
(* WriteHeader, the steps run in this order: the Content-Type sniffed from *)
(* the first payload is set if the handler set none; the skip rules are    *)
(* evaluated against that informed Content-Type, so a body sniffed as an   *)
(* unsupported type is not compressed; the compression headers are set if  *)
(* the request compresses; status 200 is committed on the real writer with *)
(* the headers so prepared; only then is the first body byte forwarded.    *)
(* (After a Flush the real writer is committed already, and the last two   *)
(* steps find the status line sent.)                                       *)
(***************************************************************************)
InformedType(q) == IF q.hh.CT = <<>> THEN DetectContentType(q.written[1]) ELSE q.hh.CT

C15_SniffedTypeWhenCompressed ==
    \A r \in Active :
        /\ req[r].wrapped /\ req[r].gets = 1
        /\ req[r].hh.CT = <<>> /\ req[r].written # <<>>
        => req[r].hdr.CT = DetectContentType(req[r].written[1])


(***************************************************************************)
(* C16.  Under every interleaving of concurrent requests on one handler a  *)
(* stream is held by at most one in-flight request and is never in the     *)
(* pool while held: the stream Get returned is reset to that request's     *)
(* real writer, is changed only by calls of that request, and becomes      *)
(* available to others only when that request's Close has put it back.     *)
(***************************************************************************)
Holders(s) == {r \in DOMAIN req : req[r].z = s}

HeldByOne ==
    /\ \A s \in DOMAIN zs : Cardinality(Holders(s)) <= 1
    /\ \A s \in DOMAIN zs : zs[s].st = "held" <=> Holders(s) # {}
    /\ \A r \in DOMAIN req :
         req[r].z # Nil =>
            /\ req[r].phase = "handler"
            /\ zs[req[r].z].st = "held"
            /\ zs[req[r].z].dst = r

NewPayloads(r) == SubSeq(req'[r].written, Len(req[r].written) + 1, Len(req'[r].written))

StreamStep(s) ==
    /\ zs[s].st # "held" /\ zs'[s].st = "held" =>
          \E r \in DOMAIN req :
             /\ req[r].z = Nil /\ req'[r].z = s
             /\ zs'[s].dst = r /\ ~zs'[s].closed /\ ~zs'[s].failed
             /\ zs'[s].sum \in {<<>>, NewPayloads(r)}
             /\ \A o \in DOMAIN req \ {r} : req'[o] = req[o]
    /\ zs[s].st = "held" /\ zs'[s] # zs[s] =>
          \E r \in Holders(s) : \A o \in DOMAIN req \ {r} : req'[o] = req[o]
    /\ zs[s].st = "held" /\ zs'[s].st # "held" =>
          \E r \in Holders(s) :
             /\ req'[r].phase = "done" /\ req'[r].z = Nil
             /\ req'[r].puts = req[r].puts + 1
             /\ zs'[s].st = "pooled"

C16_StreamExclusive ==
    /\ []HeldByOne
    /\ [][\A s \in DOMAIN zs : StreamStep(s)]_vars

C16_Witness ==
    /\ req["r1"].z # Nil /\ req["r2"].z # Nil
    /\ req["r1"].written # <<>> /\ req["r2"].written # <<>>
    /\ \E s \in DOMAIN zs : zs[s].st = "held" /\ zs[s].wroteHeader /\ zs[s].sum # <<>>
    /\ req["r1"].puts + req["r2"].puts = 0


(***************************************************************************)
(* C18.  If finalising the stream reports an error during Close, that      *)
(* stream is not returned to the pool, so no later request can obtain a    *)
(* stream that failed to finalise.                                         *)
(***************************************************************************)
C18_FailedStreamNotPooled ==
    \A s \in DOMAIN zs : zs[s].failed => zs[s].st # "pooled"


(***************************************************************************)
(* C17.  For every request that acquired a stream, once ServeHTTP has      *)
(* returned or unwound from a panic, Close has run exactly once: the       *)
(* stream is finalised, the real writer is flushed if it can flush, the    *)
(* stream is put back into the pool exactly once and the reference is      *)
(* cleared.  When no stream was acquired, Close changes nothing: neither   *)
(* the pool nor the real writer is touched.                                *)
(***************************************************************************)
Finalised(q) == q.body # <<>> /\ q.body[Len(q.body)].k = "crc"

ClosedOnce(q) ==
    /\ q.phase = "handler" => q.puts = 0
    /\ q.phase = "done" =>
          /\ q.z = Nil
          /\ q.puts = q.gets
          /\ q.gets = 1 => Finalised(q) /\ (q.flusher => q.flushed = Len(q.body))

CloseStep(r) ==
    IF req[r].z = Nil
    THEN /\ req'[r] = [req[r] EXCEPT !.phase = "done", !.uw = "none"]
         /\ zs' = zs
    ELSE /\ zs'[req[r].z].st = "pooled" /\ zs'[req[r].z].closed
         /\ zs'[req[r].z].buf = <<>>
         /\ req'[r].z = Nil /\ req'[r].puts = 1
         /\ Finalised(req'[r])
         /\ req'[r].flushed = (IF req[r].flusher THEN Len(req'[r].body) ELSE req[r].flushed)

C17_ClosedOnExit ==
    /\ [](\A r \in Active : req[r].wrapped => ClosedOnce(req[r]))
    /\ [][\A r \in DOMAIN req :
              req[r].wrapped /\ req[r].phase = "handler" /\ req'[r].phase = "done"
              => CloseStep(r)]_vars

C17_Witness ==
    \E r \in Active :
        /\ req[r].phase = "done" /\ req[r].gets = 1 /\ req[r].puts = 1
        /\ req[r].flusher /\ req[r].flushed = Len(req[r].body)
        /\ Len(req[r].written) = 2 /\ zs["z1"].st = "pooled"


(***************************************************************************)
(* C19.  Every Flush on the decorator first flushes the compressor's       *)
(* buffered output into the real writer when the request compresses, and   *)
(* afterwards flushes the real writer when it can flush; with a real       *)
(* writer that cannot flush only the compressor is flushed, with no stream *)
(* held only the real writer is flushed.  Flush never changes the decision *)
(* and neither acquires nor releases a stream.                             *)
(***************************************************************************)
FlushStep(r) ==
    LET q  == req[r]
        q2 == req'[r]
    IN  /\ q2.skip = q.skip /\ q2.z = q.z /\ q2.dec = q.dec
        /\ q2.gets = q.gets /\ q2.puts = q.puts
        /\ \A s \in DOMAIN zs : zs'[s].st = zs[s].st /\ zs'[s].dst = zs[s].dst
        /\ IF q.z # Nil
           THEN /\ Len(q2.body) > Len(q.body)
                /\ q2.body[Len(q2.body)] = [k |-> "blk", d |-> zs[q.z].buf]
                /\ SubSeq(q2.body, 1, Len(q.body)) = q.body
                /\ zs'[q.z].buf = <<>> /\ zs'[q.z].sum = zs[q.z].sum
           ELSE q2.body = q.body /\ zs' = zs
        /\ q2.flushed = (IF q.flusher THEN Len(q2.body) ELSE q.flushed)

C19_FlushOrder ==
    [][\A r \in DOMAIN req :
          req[r].wrapped /\ req'[r].phase = "handler" /\ req'[r].nFlush = req[r].nFlush + 1
          => FlushStep(r)]_vars

C19_Witness ==
    \E r \in Active :
        /\ req[r].wrapped /\ req[r].nFlush = 1 /\ req[r].z # Nil /\ req[r].flusher
        /\ req[r].flushed = Len(req[r].body) /\ req[r].body # <<>>
        /\ req[r].body[Len(req[r].body)].k = "blk"
        /\ req[r].body[Len(req[r].body)].d # <<>>


(***************************************************************************)
(* C20.  Within one response all body bytes take the same route, for every *)
(* sequence of WriteHeader and Write calls: either every payload is        *)
(* forwarded raw to the real writer or every payload goes through the one  *)
(* compression stream, never raw bytes followed by compressed ones or the  *)
(* reverse.                                                                *)
(***************************************************************************)
C20_SingleRoute ==
    \A r \in Active :
        req[r].wrapped => req[r].body = RawBody(req[r]) \/ NoRawBytes(req[r])

=============================================================================
